---- MODULE Spec2Model ----
(***************************************************************************)
(* Hydrogen-bond decomposition of a water configuration                    *)
(* (water/analysis/hbond_decomposition.py).                                *)
(*                                                                         *)
(* main(file_path) reads an atom configuration, groups the atoms into      *)
(* water molecules, detects hydrogen bonds with a distance/angle test and  *)
(* summarises them.  Each call main makes is one action; the functions     *)
(* themselves are operators that follow the loops of the code.             *)
(*                                                                         *)
(* Lengths are in half-Angstrom so that 1.5 and 3.5 are the integers 3 and *)
(* 7; angles are in degrees.  Floats that are quotients of small integers  *)
(* are kept as reduced fractions <<numerator, denominator>>.               *)
(*                                                                         *)
(* atoms.get_distance and atoms.get_angle belong to the structure library. *)
(* Their answers are inputs: they are drawn when the function that asks    *)
(* for them runs, and recorded in the variable atoms.                      *)
(***************************************************************************)
EXTENDS Integers, Sequences, FiniteSets, TLC

VARIABLES
    pc,                  \* the statement of main that runs next
    atoms,               \* [n, dist, angle]: len(atoms) and the geometry read so far
    distance_cutoff,     \* find_hydrogen_bonds' distance_cutoff argument
    angle_cutoff,        \* find_hydrogen_bonds' angle_cutoff argument
    water_mols,          \* main's water_mols
    hbonds,              \* main's hbonds
    avg_hbonds,          \* main's avg_hbonds
    oxygen_bond_counts,  \* main's oxygen_bond_counts
    type_counts,         \* main's type_counts
    percentages,         \* main's percentages
    result,              \* the dictionary main returns, or NoResult
    locals,              \* the names of main's local variables assigned so far
    err                  \* the exception that ended the call, or "none"

vars == <<pc, atoms, distance_cutoff, angle_cutoff, water_mols, hbonds,
          avg_hbonds, oxygen_bond_counts, type_counts, percentages, result,
          locals, err>>

-----------------------------------------------------------------------------
(* Bounds of the model *)

MaxAtoms == 9
MaxBonds == 3

(* Values the geometry primitives may answer (below, at and above the      *)
(* thresholds they are compared with).                                     *)
OHVals == {2, 3, 4}
DistVals == {6, 7, 8}
AngleVals == {29, 30}
DistCutoffs == {6, 7, 8}
AngleCutoffs == {29, 30, 31}

(* Atom indices the bonds of an arbitrary bond collection are drawn from;  *)
(* index 3 serves both as an oxygen and as a hydrogen.                     *)
StatOxygens == {0, 3, 6}
StatHydrogens == {1, 3}

(* Program constants *)
OHCutoff == 3
DefaultDistanceCutoff == 7
DefaultAngleCutoff == 30

NoResult == [returned |-> FALSE]
Unset == <<>>

-----------------------------------------------------------------------------
(* build_water_molecules *)

Molecule(i) == [O |-> 3 * i, H |-> <<3 * i + 1, 3 * i + 2>>]

\* the pairs whose distance build_water_molecules reads
OHPairs(n) == UNION {{{3 * i, 3 * i + 1}, {3 * i, 3 * i + 2}} : i \in 0 .. (n \div 3) - 1}

\* variant: the second hydrogen's distance is not checked
RECURSIVE BuildLoop_first_only(_, _, _, _)
BuildLoop_first_only(at, n_waters, i, acc) ==
    IF i >= n_waters THEN [err |-> "none", val |-> acc]
    ELSE IF ~(at.dist[{3 * i, 3 * i + 1}] < OHCutoff) THEN [err |-> "AssertionError", val |-> <<>>]
    ELSE BuildLoop_first_only(at, n_waters, i + 1, Append(acc, Molecule(i)))

\* the loop "for i in range(n_waters)", from iteration i with water_mols = acc
RECURSIVE BuildLoop(_, _, _, _)
BuildLoop(at, n_waters, i, acc) ==
    IF i >= n_waters THEN [err |-> "none", val |-> acc]
    ELSE LET base == 3 * i
             appended == Append(acc, Molecule(i))
         IN  IF ~(at.dist[{base, base + 1}] < OHCutoff) THEN [err |-> "AssertionError", val |-> Unset]
             ELSE IF ~(at.dist[{base, base + 2}] < OHCutoff) THEN [err |-> "AssertionError", val |-> Unset]
             ELSE BuildLoop(at, n_waters, i + 1, appended)

\* variant: leftover atoms are rejected instead of dropped
build_water_molecules_strict(at) ==
    IF at.n % 3 # 0 THEN [err |-> "ValueError", val |-> <<>>]
    ELSE BuildLoop(at, at.n \div 3, 0, <<>>)

build_water_molecules(at) ==
    LET n_atoms == at.n
        n_waters == n_atoms \div 3
    IN  BuildLoop(at, n_waters, 0, <<>>)

-----------------------------------------------------------------------------
(* find_hydrogen_bonds *)

\* the oxygen pairs whose distance find_hydrogen_bonds reads
OOPairs(mols) ==
    {{mols[i].O, mols[j].O} : i, j \in 1 .. Len(mols)} \ {{mols[i].O} : i \in 1 .. Len(mols)}

\* the (acceptor_O, donor_O, h) triples whose angle it reads, given the distances
AngleTriples(mols, dist, dc) ==
    {<<mols[j].O, mols[i].O, mols[i].H[k]>> : i, j \in 1 .. Len(mols), k \in 1 .. 2}
        \cap {t \in (0 .. 3 * Len(mols)) \X (0 .. 3 * Len(mols)) \X (0 .. 3 * Len(mols)) :
                 t[1] # t[2] /\ dist[{t[1], t[2]}] < dc}

\* variant: the angle test is "<=" instead of "<"
RECURSIVE HydrogenLoop_le(_, _, _, _, _, _)
HydrogenLoop_le(at, acceptor_O, donor, k, ac, acc) ==
    IF k > Len(donor.H) THEN acc
    ELSE IF at.angle[<<acceptor_O, donor.O, donor.H[k]>>] <= ac
         THEN HydrogenLoop_le(at, acceptor_O, donor, k + 1, ac,
                              Append(acc, <<acceptor_O, donor.O, donor.H[k]>>))
         ELSE HydrogenLoop_le(at, acceptor_O, donor, k + 1, ac, acc)

\* variant: the tuple is written (donor_O, acceptor_O, h)
RECURSIVE HydrogenLoop_swapped(_, _, _, _, _, _)
HydrogenLoop_swapped(at, acceptor_O, donor, k, ac, acc) ==
    IF k > Len(donor.H) THEN acc
    ELSE IF at.angle[<<acceptor_O, donor.O, donor.H[k]>>] < ac
         THEN HydrogenLoop_swapped(at, acceptor_O, donor, k + 1, ac,
                                   Append(acc, <<donor.O, acceptor_O, donor.H[k]>>))
         ELSE HydrogenLoop_swapped(at, acceptor_O, donor, k + 1, ac, acc)

\* "for h in donor['H']", from the k-th hydrogen with hbonds = acc
RECURSIVE HydrogenLoop(_, _, _, _, _, _)
HydrogenLoop(at, acceptor_O, donor, k, ac, acc) ==
    IF k > Len(donor.H) THEN acc
    ELSE LET h == donor.H[k]
             theta == at.angle[<<acceptor_O, donor.O, h>>]
         IN  IF theta < ac
             THEN HydrogenLoop(at, acceptor_O, donor, k + 1, ac, Append(acc, <<acceptor_O, donor.O, h>>))
             ELSE HydrogenLoop(at, acceptor_O, donor, k + 1, ac, acc)

\* "for j, acceptor in enumerate(water_mols)", from position j with hbonds = acc
RECURSIVE AcceptorLoop(_, _, _, _, _, _, _)
AcceptorLoop(at, mols, i, j, dc, ac, acc) ==
    IF j >= Len(mols) THEN acc
    ELSE IF i = j THEN AcceptorLoop(at, mols, i, j + 1, dc, ac, acc)
    ELSE LET donor == mols[i + 1]
             acceptor_O == mols[j + 1].O
             OO_dist == at.dist[{donor.O, acceptor_O}]
         IN  IF OO_dist < dc
             THEN AcceptorLoop(at, mols, i, j + 1, dc, ac,
                               HydrogenLoop(at, acceptor_O, donor, 1, ac, acc))
             ELSE AcceptorLoop(at, mols, i, j + 1, dc, ac, acc)

\* "for i, donor in enumerate(water_mols)", from position i with hbonds = acc
RECURSIVE DonorLoop(_, _, _, _, _, _)
DonorLoop(at, mols, i, dc, ac, acc) ==
    IF i >= Len(mols) THEN acc
    ELSE DonorLoop(at, mols, i + 1, dc, ac, AcceptorLoop(at, mols, i, 0, dc, ac, acc))

\* variant: a bond is dropped when the pair is already bonded the other way round
find_hydrogen_bonds_symmetrized(at, mols, dc, ac) ==
    LET all == DonorLoop(at, mols, 0, dc, ac, <<>>)
        Reversed(b) == \E k \in 1 .. Len(all) : all[k][1] = b[2] /\ all[k][2] = b[1]
        Keep(b) == b[2] < b[1] \/ ~Reversed(b)
    IN  SelectSeq(all, Keep)

find_hydrogen_bonds(at, mols, dc, ac) == DonorLoop(at, mols, 0, dc, ac, <<>>)

-----------------------------------------------------------------------------
(* numpy and float helpers *)

RECURSIVE GCD(_, _)
GCD(a, b) == IF b = 0 THEN a ELSE GCD(b, a % b)

\* the float p / q, as a reduced fraction (q > 0)
Fraction(p, q) == LET g == GCD(p, q) IN <<p \div g, q \div g>>

\* Python's true division: ZeroDivisionError on a zero divisor
TrueDiv(p, q) ==
    IF q = 0 THEN [err |-> "ZeroDivisionError", val |-> Unset]
    ELSE [err |-> "none", val |-> Fraction(p, q)]

\* hbond_array[:, c]
Column(hb, c) == [k \in 1 .. Len(hb) |-> hb[k][c]]

Min(S) == CHOOSE x \in S : \A y \in S : x <= y

RECURSIVE SortedSeq(_)
SortedSeq(S) == IF S = {} THEN <<>> ELSE <<Min(S)>> \o SortedSeq(S \ {Min(S)})

\* np.unique: the sorted distinct elements
np_unique(seq) == SortedSeq({seq[k] : k \in 1 .. Len(seq)})

-----------------------------------------------------------------------------
(* calculate_average_hbonds *)

\* variant: the hydrogen column is counted among the oxygens
calculate_average_hbonds_all_columns(hb) ==
    IF Len(hb) = 0 THEN [err |-> "none", val |-> <<0, 1>>]
    ELSE TrueDiv(2 * Len(hb), Len(np_unique(Column(hb, 1) \o Column(hb, 2) \o Column(hb, 3))))

\* variant: no early return for the empty collection
calculate_average_hbonds_unguarded(hb) ==
    TrueDiv(2 * Len(hb), Len(np_unique(Column(hb, 1) \o Column(hb, 2))))

\* variant: the endpoint count is returned undivided
calculate_average_hbonds_undivided(hb) ==
    IF Len(hb) = 0 THEN [err |-> "none", val |-> <<0, 1>>]
    ELSE TrueDiv(2 * Len(hb), 1)

calculate_average_hbonds(hb) ==
    IF Len(hb) = 0 THEN [err |-> "none", val |-> <<0, 1>>]
    ELSE LET unique_oxygens == np_unique(Column(hb, 1) \o Column(hb, 2))
             num_bonds == Len(hb)
         IN  TrueDiv(2 * num_bonds, Len(unique_oxygens))

-----------------------------------------------------------------------------
(* analyze_bond_counts *)

\* d[key] += 1 on a defaultdict(int) or a Counter
Increment(d, key) ==
    IF key \in DOMAIN d THEN [d EXCEPT ![key] = @ + 1] ELSE d @@ (key :> 1)

\* d.get(key, 0)
GetOrZero(d, key) == IF key \in DOMAIN d THEN d[key] ELSE 0

\* variant: the tuple is unpacked as (donor, acceptor, _)
RECURSIVE TallyLoop_swapped(_, _, _)
TallyLoop_swapped(hb, k, counts) ==
    IF k > Len(hb) THEN counts
    ELSE TallyLoop_swapped(hb, k + 1,
                           [acceptor_counts |-> Increment(counts.acceptor_counts, hb[k][2]),
                            donor_counts |-> Increment(counts.donor_counts, hb[k][1])])

\* "for acceptor, donor, _ in hbonds", from the k-th bond
RECURSIVE TallyLoop(_, _, _)
TallyLoop(hb, k, counts) ==
    IF k > Len(hb) THEN counts
    ELSE LET acceptor == hb[k][1]
             donor == hb[k][2]
         IN  TallyLoop(hb, k + 1,
                       [acceptor_counts |-> Increment(counts.acceptor_counts, acceptor),
                        donor_counts |-> Increment(counts.donor_counts, donor)])

\* f"A{counts['accepting']}D{counts['donating']}"
BondType(counts) == "A" \o ToString(counts.accepting) \o "D" \o ToString(counts.donating)

\* "for oxygen, counts in oxygen_bond_counts.items()", over the keys left in todo
RECURSIVE TypeLoop(_, _, _)
TypeLoop(obc, todo, tc) ==
    IF todo = {} THEN tc
    ELSE LET oxygen == Min(todo)
         IN  TypeLoop(obc, todo \ {oxygen}, Increment(tc, BondType(obc[oxygen])))

\* variant: the denominator is the number of bond types
Percentages_by_types(tc, total_oxygens) ==
    [err |-> "none",
     val |-> [bond_type \in DOMAIN tc |->
                 Fraction(tc[bond_type] * 100, Cardinality(DOMAIN tc))]]

\* the comprehension {bond_type: (count / total_oxygens) * 100 ...}
Percentages(tc, total_oxygens) ==
    IF DOMAIN tc # {} /\ total_oxygens = 0
    THEN [err |-> "ZeroDivisionError", val |-> Unset]
    ELSE [err |-> "none",
          val |-> [bond_type \in DOMAIN tc |-> Fraction(tc[bond_type] * 100, total_oxygens)]]

analyze_bond_counts(hb) ==
    LET counts == TallyLoop(hb, 1, [acceptor_counts |-> <<>>, donor_counts |-> <<>>])
        all_oxygens == DOMAIN counts.acceptor_counts \cup DOMAIN counts.donor_counts
        obc == [oxygen \in all_oxygens |->
                   [accepting |-> GetOrZero(counts.acceptor_counts, oxygen),
                    donating |-> GetOrZero(counts.donor_counts, oxygen)]]
        tc == TypeLoop(obc, DOMAIN obc, <<>>)
        total_oxygens == Cardinality(DOMAIN obc)
        pct == Percentages(tc, total_oxygens)
    IN  [err |-> pct.err,
         oxygen_bond_counts |-> obc,
         type_counts |-> tc,
         percentages |-> pct.val]

-----------------------------------------------------------------------------
(* main *)

Init ==
    /\ pc = "read"
    /\ atoms = [n |-> 0, dist |-> <<>>, angle |-> <<>>]
    /\ distance_cutoff = DefaultDistanceCutoff
    /\ angle_cutoff = DefaultAngleCutoff
    /\ water_mols = Unset
    /\ hbonds = Unset
    /\ avg_hbonds = Unset
    /\ oxygen_bond_counts = Unset
    /\ type_counts = Unset
    /\ percentages = Unset
    /\ result = NoResult
    /\ locals = {}
    /\ err = "none"

\* atoms = ase.io.read(file_path)
Read ==
    /\ pc = "read"
    /\ \E n \in 0 .. MaxAtoms : atoms' = [n |-> n, dist |-> <<>>, angle |-> <<>>]
    /\ locals' = locals \cup {"atoms"}
    /\ pc' = "build"
    /\ UNCHANGED <<distance_cutoff, angle_cutoff, water_mols, hbonds, avg_hbonds,
                   oxygen_bond_counts, type_counts, percentages, result, err>>

\* water_mols = build_water_molecules(atoms)
Build ==
    /\ pc = "build"
    /\ \E d \in [OHPairs(atoms.n) -> OHVals] :
          LET at == [atoms EXCEPT !.dist = d]
              r == build_water_molecules(at)
          IN  /\ atoms' = at
              /\ IF r.err = "none"
                 THEN /\ water_mols' = r.val
                      /\ locals' = locals \cup {"water_mols"}
                      /\ pc' = "find"
                      /\ err' = err
                 ELSE /\ UNCHANGED <<water_mols, locals>>
                      /\ pc' = "raised"
                      /\ err' = r.err
    /\ UNCHANGED <<distance_cutoff, angle_cutoff, hbonds, avg_hbonds,
                   oxygen_bond_counts, type_counts, percentages, result>>

\* hbonds = find_hydrogen_bonds(atoms, water_mols)
Find ==
    /\ pc = "find"
    /\ \E oo \in [OOPairs(water_mols) -> DistVals] :
         \E ang \in [AngleTriples(water_mols, oo, distance_cutoff) -> AngleVals] :
            LET at == [atoms EXCEPT !.dist = oo @@ atoms.dist, !.angle = ang]
            IN  /\ atoms' = at
                /\ hbonds' = find_hydrogen_bonds(at, water_mols, distance_cutoff, angle_cutoff)
    /\ locals' = locals \cup {"hbonds"}
    /\ pc' = "avg"
    /\ UNCHANGED <<distance_cutoff, angle_cutoff, water_mols, avg_hbonds,
                   oxygen_bond_counts, type_counts, percentages, result, err>>

\* avg_hbonds = calculate_average_hbonds(hbonds)
Average ==
    /\ pc = "avg"
    /\ LET r == calculate_average_hbonds(hbonds)
       IN  IF r.err = "none"
           THEN /\ avg_hbonds' = r.val
                /\ locals' = locals \cup {"avg_hbonds"}
                /\ pc' = "analyze"
                /\ err' = err
           ELSE /\ UNCHANGED <<avg_hbonds, locals>>
                /\ pc' = "raised"
                /\ err' = r.err
    /\ UNCHANGED <<atoms, distance_cutoff, angle_cutoff, water_mols, hbonds,
                   oxygen_bond_counts, type_counts, percentages, result>>

\* oxygen_bond_counts, type_counts, percentages = analyze_bond_counts(hbonds)
Analyze ==
    /\ pc = "analyze"
    /\ LET r == analyze_bond_counts(hbonds)
       IN  IF r.err = "none"
           THEN /\ oxygen_bond_counts' = r.oxygen_bond_counts
                /\ type_counts' = r.type_counts
                /\ percentages' = r.percentages
                /\ locals' = locals \cup {"oxygen_bond_counts", "type_counts", "percentages"}
                /\ pc' = "return"
                /\ err' = err
           ELSE /\ UNCHANGED <<oxygen_bond_counts, type_counts, percentages, locals>>
                /\ pc' = "raised"
                /\ err' = r.err
    /\ UNCHANGED <<atoms, distance_cutoff, angle_cutoff, water_mols, hbonds,
                   avg_hbonds, result>>

\* return {"average_hbonds": ..., "oxygen_bond_counts": ..., ...}
Return ==
    /\ pc = "return"
    /\ result' = [average_hbonds |-> avg_hbonds,
                  oxygen_bond_counts |-> oxygen_bond_counts,
                  type_counts |-> type_counts,
                  percentages |-> percentages]
    /\ pc' = "done"
    /\ UNCHANGED <<atoms, distance_cutoff, angle_cutoff, water_mols, hbonds,
                   avg_hbonds, oxygen_bond_counts, type_counts, percentages,
                   locals, err>>

Next == Read \/ Build \/ Find \/ Average \/ Analyze \/ Return

Spec == Init /\ [][Next]_vars

-----------------------------------------------------------------------------
(* find_hydrogen_bonds on its own: any molecule list, any cutoffs *)

InitFind ==
    /\ pc = "find"
    /\ \E n \in 0 .. MaxAtoms :
          /\ atoms = [n |-> n, dist |-> <<>>, angle |-> <<>>]
          /\ water_mols = [i \in 1 .. (n \div 3) |-> Molecule(i - 1)]
    /\ distance_cutoff \in DistCutoffs
    /\ angle_cutoff \in AngleCutoffs
    /\ hbonds = Unset
    /\ avg_hbonds = Unset
    /\ oxygen_bond_counts = Unset
    /\ type_counts = Unset
    /\ percentages = Unset
    /\ result = NoResult
    /\ locals = {"atoms", "water_mols"}
    /\ err = "none"

NextFind == Find

SpecFind == InitFind /\ [][NextFind]_vars

-----------------------------------------------------------------------------
(* The statistics on their own: any bond collection *)

RECURSIVE SeqsUpTo(_, _)
SeqsUpTo(S, n) ==
    IF n = 0 THEN {<<>>}
    ELSE LET shorter == SeqsUpTo(S, n - 1)
         IN  shorter \cup {Append(q, x) : q \in shorter, x \in S}

BondCollections == SeqsUpTo(StatOxygens \X StatOxygens \X StatHydrogens, MaxBonds)

InitStats ==
    /\ pc = "avg"
    /\ atoms = [n |-> 0, dist |-> <<>>, angle |-> <<>>]
    /\ distance_cutoff = DefaultDistanceCutoff
    /\ angle_cutoff = DefaultAngleCutoff
    /\ water_mols = Unset
    /\ hbonds \in BondCollections
    /\ avg_hbonds = Unset
    /\ oxygen_bond_counts = Unset
    /\ type_counts = Unset
    /\ percentages = Unset
    /\ result = NoResult
    /\ locals = {"hbonds"}
    /\ err = "none"

NextStats == Average \/ Analyze \/ Return

SpecStats == InitStats /\ [][NextStats]_vars

-----------------------------------------------------------------------------
(* Properties *)

AfterBuild == pc \in {"find", "avg", "analyze", "return", "done", "raised"}
AfterFind == pc \in {"avg", "analyze", "return", "done"}
AfterAverage == pc \in {"analyze", "return", "done"}
AfterAnalyze == pc \in {"return", "done"}

BondSet(hb) == {hb[k] : k \in 1 .. Len(hb)}

\* molecule positions (i, j) and hydrogen k that pass both tests: i donates to j
QualifyingTriples ==
    {t \in (1 .. Len(water_mols)) \X (1 .. Len(water_mols)) \X (1 .. 2) :
        /\ t[1] # t[2]
        /\ atoms.dist[{water_mols[t[1]].O, water_mols[t[2]].O}] < distance_cutoff
        /\ atoms.angle[<<water_mols[t[2]].O, water_mols[t[1]].O, water_mols[t[1]].H[t[3]]>>]
               < angle_cutoff}

QualifyingBonds ==
    {<<water_mols[t[2]].O, water_mols[t[1]].O, water_mols[t[1]].H[t[3]]>> :
        t \in QualifyingTriples}

\* C1: find_hydrogen_bonds returns exactly the bonds (O_j, O_i, h) with i # j,
\* O_i-O_j distance strictly below distance_cutoff, h a hydrogen of donor i
\* and angle O_j-O_i-h strictly below angle_cutoff; a distance or an angle
\* equal to its cutoff yields no bond.
C1_ExactBonds ==
    pc = "avg" =>
        /\ BondSet(hbonds) = QualifyingBonds
        /\ \A b \in BondSet(hbonds) :
              /\ atoms.dist[{b[1], b[2]}] # distance_cutoff
              /\ atoms.angle[b] # angle_cutoff

\* a run with non-default cutoffs, a bond, a pair exactly at the distance
\* cutoff and a hydrogen exactly at the angle cutoff
C1_Witness ==
    /\ pc = "avg"
    /\ distance_cutoff # DefaultDistanceCutoff
    /\ Len(hbonds) > 0
    /\ \E p \in OOPairs(water_mols) : atoms.dist[p] = distance_cutoff
    /\ \E t \in DOMAIN atoms.angle : atoms.angle[t] = angle_cutoff

AllOHBelow == \A p \in OHPairs(atoms.n) : atoms.dist[p] < OHCutoff

\* C2: when every consecutive triplet has both O-H distances below 1.5,
\* build_water_molecules succeeds with floor(N/3) molecules, molecule i being
\* O = 3i, H = [3i+1, 3i+2]; trailing atoms are in no molecule and no error.
C2_BuildGroups ==
    (AfterBuild /\ AllOHBelow) =>
        /\ pc # "raised"
        /\ err = "none"
        /\ 3 * Len(water_mols) <= atoms.n
        /\ atoms.n < 3 * Len(water_mols) + 3
        /\ \A i \in 0 .. Len(water_mols) - 1 :
              /\ water_mols[i + 1].O = 3 * i
              /\ water_mols[i + 1].H = <<3 * i + 1, 3 * i + 2>>

\* eight atoms: two molecules and two trailing atoms
C2_Witness ==
    /\ pc = "find"
    /\ atoms.n = 8
    /\ Len(water_mols) = 2

SomeOHNotBelow == \E p \in OHPairs(atoms.n) : ~(atoms.dist[p] < OHCutoff)

Aborted ==
    /\ pc = "raised"
    /\ locals = {"atoms"}
    /\ result = NoResult

Oxygens(hb) == {hb[k][1] : k \in 1 .. Len(hb)} \cup {hb[k][2] : k \in 1 .. Len(hb)}

\* C4: for a non-empty bond collection calculate_average_hbonds returns
\* 2 * (number of bonds) / (number of distinct acceptor or donor indices),
\* the hydrogen index never counting; for the empty collection it returns 0
\* and raises nothing.
C4_AverageFormula ==
    /\ pc # "raised"
    /\ AfterAverage =>
          /\ avg_hbonds[2] > 0
          /\ GCD(avg_hbonds[1], avg_hbonds[2]) = 1
          /\ Len(hbonds) > 0 =>
                avg_hbonds[1] * Cardinality(Oxygens(hbonds)) = 2 * Len(hbonds) * avg_hbonds[2]
          /\ Len(hbonds) = 0 => avg_hbonds = <<0, 1>>

\* two or more bonds, one of them with a hydrogen index that is the oxygen
\* index of no bond
C4_Witness ==
    /\ pc = "analyze"
    /\ Len(hbonds) >= 2
    /\ \E k \in 1 .. Len(hbonds) :
          hbonds[k][3] \in StatOxygens /\ hbonds[k][3] \notin Oxygens(hbonds)

\* C5: the keys of oxygen_bond_counts are exactly the indices occurring as
\* acceptor or donor in some bond; 'accepting' is the number of bonds whose
\* acceptor the key is and 'donating' the number whose donor it is.
C5_RoleCounts ==
    AfterAnalyze =>
        /\ DOMAIN oxygen_bond_counts = Oxygens(hbonds)
        /\ \A o \in DOMAIN oxygen_bond_counts :
              /\ oxygen_bond_counts[o].accepting
                    = Cardinality({k \in 1 .. Len(hbonds) : hbonds[k][1] = o})
              /\ oxygen_bond_counts[o].donating
                    = Cardinality({k \in 1 .. Len(hbonds) : hbonds[k][2] = o})

\* an oxygen that accepts twice and never donates, and an index that is in
\* no bond and is no key
C5_Witness ==
    /\ pc = "return"
    /\ \E o \in DOMAIN oxygen_bond_counts :
          oxygen_bond_counts[o].accepting = 2 /\ oxygen_bond_counts[o].donating = 0
    /\ \E o \in StatOxygens : o \notin DOMAIN oxygen_bond_counts

RECURSIVE SumCounts(_, _)
SumCounts(f, S) ==
    IF S = {} THEN 0
    ELSE LET x == CHOOSE y \in S : TRUE IN f[x] + SumCounts(f, S \ {x})

\* the sum of the fractions f[x], x in S, as <<numerator, denominator>>
RECURSIVE SumFractions(_, _)
SumFractions(f, S) ==
    IF S = {} THEN <<0, 1>>
    ELSE LET x == CHOOSE y \in S : TRUE
             rest == SumFractions(f, S \ {x})
         IN  <<f[x][1] * rest[2] + rest[1] * f[x][2], f[x][2] * rest[2]>>

\* the label "A{n}D{m}" written digit by digit (counts below 10)
Digit(n) == CASE n = 0 -> "0" [] n = 1 -> "1" [] n = 2 -> "2" [] n = 3 -> "3"
              [] n = 4 -> "4" [] n = 5 -> "5" [] n = 6 -> "6" [] n = 7 -> "7"
              [] n = 8 -> "8" [] n = 9 -> "9"
Label(n, m) == "A" \o Digit(n) \o "D" \o Digit(m)

OxygensOfType(n, m) ==
    {o \in DOMAIN oxygen_bond_counts :
        oxygen_bond_counts[o].accepting = n /\ oxygen_bond_counts[o].donating = m}

\* C6: the values of type_counts sum to the number of keys of
\* oxygen_bond_counts, label "A{n}D{m}" counting the oxygens with exactly that
\* pair; percentages has the same labels, each 100 * count / (number of keys),
\* and they sum to 100 when oxygen_bond_counts is non-empty.
C6_TypeCounts ==
    AfterAnalyze =>
        LET total == Cardinality(DOMAIN oxygen_bond_counts)
        IN  /\ SumCounts(type_counts, DOMAIN type_counts) = total
            /\ DOMAIN type_counts =
                  {Label(oxygen_bond_counts[o].accepting, oxygen_bond_counts[o].donating) :
                      o \in DOMAIN oxygen_bond_counts}
            /\ \A n, m \in 0 .. Len(hbonds) :
                  OxygensOfType(n, m) # {} =>
                      type_counts[Label(n, m)] = Cardinality(OxygensOfType(n, m))
            /\ DOMAIN percentages = DOMAIN type_counts
            /\ \A l \in DOMAIN type_counts :
                  /\ percentages[l][2] > 0
                  /\ percentages[l][1] * total = 100 * type_counts[l] * percentages[l][2]
            /\ total > 0 =>
                  LET sum == SumFractions(percentages, DOMAIN percentages)
                  IN  sum[1] = 100 * sum[2]

\* three oxygens in two types, one type shared by two oxygens
C6_Witness ==
    /\ pc = "return"
    /\ Cardinality(DOMAIN type_counts) = 2
    /\ \E l \in DOMAIN type_counts : type_counts[l] = 2 /\ percentages[l] = <<200, 3>>

\* C7: when no bond qualifies (in particular with one molecule or none) the
\* analysis ends normally: empty bond collection, average 0, empty
\* oxygen_bond_counts, type_counts and percentages, and no exception.
C7_EmptyIsNormal ==
    /\ (AfterFind /\ Len(water_mols) <= 1) => Len(hbonds) = 0
    /\ ("hbonds" \in locals /\ Len(hbonds) = 0) => (pc # "raised" /\ err = "none")
    /\ (AfterAverage /\ Len(hbonds) = 0) => avg_hbonds = <<0, 1>>
    /\ (AfterAnalyze /\ Len(hbonds) = 0) =>
          /\ DOMAIN oxygen_bond_counts = {}
          /\ DOMAIN type_counts = {}
          /\ DOMAIN percentages = {}
    /\ (pc = "done" /\ Len(hbonds) = 0) =>
          /\ err = "none"
          /\ result.average_hbonds = <<0, 1>>
          /\ DOMAIN result.oxygen_bond_counts = {}
          /\ DOMAIN result.type_counts = {}
          /\ DOMAIN result.percentages = {}

\* main has returned for a single water molecule
C7_Witness ==
    /\ pc = "done"
    /\ Len(water_mols) = 1
    /\ Len(hbonds) = 0
    /\ result.average_hbonds = <<0, 1>>

Precedes(b, c) ==
    \/ b[2] < c[2]
    \/ b[2] = c[2] /\ b[1] < c[1]
    \/ b[2] = c[2] /\ b[1] = c[1] /\ b[3] < c[3]

HasReverse(b) == \E c \in BondSet(hbonds) : c[1] = b[2] /\ c[2] = b[1]

\* C9: the list is in iteration order (donor position, then acceptor
\* position, then hydrogen 3i+1 before 3i+2) and each direction of a pair is
\* decided on its own: every qualifying (acceptor, donor, hydrogen) is listed
\* once, with or without a bond in the reverse direction.
C9_IterationOrder ==
    AfterFind =>
        /\ \A k \in 1 .. Len(hbonds) - 1 : Precedes(hbonds[k], hbonds[k + 1])
        /\ Len(hbonds) = Cardinality(QualifyingTriples)
        /\ \A t \in QualifyingTriples :
              <<water_mols[t[2]].O, water_mols[t[1]].O, water_mols[t[1]].H[t[3]]>>
                  \in BondSet(hbonds)

\* bonds from several donors, one pair bonded both ways and one bond whose
\* reverse direction has none
C9_Witness ==
    /\ pc = "avg"
    /\ Len(hbonds) >= 4
    /\ \E b \in BondSet(hbonds) : HasReverse(b)
    /\ \E b \in BondSet(hbonds) : ~HasReverse(b)
    /\ \E b, c \in BondSet(hbonds) : b[2] = c[2] /\ b[1] # c[1]

\* C10: every bond (a, d, h) is well formed (a and d oxygens of different
\* molecules, h one of d's hydrogens, no tuple twice); the accepting counts
\* and the donating counts each sum to the number of bonds, and no donating
\* count exceeds 2 * (number of molecules - 1).
C10_WellFormed ==
    /\ AfterFind =>
          /\ \A k \in 1 .. Len(hbonds) :
                LET a == hbonds[k][1]
                    d == hbonds[k][2]
                    h == hbonds[k][3]
                IN  /\ a # d
                    /\ a % 3 = 0 /\ d % 3 = 0
                    /\ a \in 0 .. 3 * (Len(water_mols) - 1)
                    /\ d \in 0 .. 3 * (Len(water_mols) - 1)
                    /\ h \in {d + 1, d + 2}
          /\ \A k, l \in 1 .. Len(hbonds) : hbonds[k] = hbonds[l] => k = l
    /\ AfterAnalyze =>
          LET accepting == [o \in DOMAIN oxygen_bond_counts |-> oxygen_bond_counts[o].accepting]
              donating == [o \in DOMAIN oxygen_bond_counts |-> oxygen_bond_counts[o].donating]
          IN  /\ SumCounts(accepting, DOMAIN accepting) = Len(hbonds)
              /\ SumCounts(donating, DOMAIN donating) = Len(hbonds)
              /\ \A o \in DOMAIN donating : donating[o] <= 2 * (Len(water_mols) - 1)

\* an oxygen that donates both hydrogens to both other molecules
C10_Witness ==
    /\ pc = "return"
    /\ Len(water_mols) = 3
    /\ \E o \in DOMAIN oxygen_bond_counts :
          oxygen_bond_counts[o].donating = 4 /\ oxygen_bond_counts[o].accepting = 1

====
